---- MODULE Spec2Model ----
(***************************************************************************)
(* Model of the theme data-access service (theme-service.ts) and of the    *)
(* /user request handlers (user-controller.ts).                            *)
(*                                                                         *)
(* The themes table is a set of rows; every service method is one SQL      *)
(* statement, modelled as a pure operator from the table to the new table  *)
(* and the method's outcome.  A request handler is a process whose steps   *)
(* are cut at its awaits, so concurrent requests interleave there.         *)
(***************************************************************************)
EXTENDS Integers, FiniteSets, Sequences, TLC

VARIABLES themes, nextThemeId, res,
          users, profiles, active, nextUserId, nextProfileId,
          req, nreq, mixpanel

vars == <<themes, nextThemeId, res,
          users, profiles, active, nextUserId, nextProfileId,
          req, nreq, mixpanel>>

themeVars == <<themes, nextThemeId, res>>
userVars == <<users, profiles, active, nextUserId, nextProfileId, req, nreq>>

(***************************************************************************)
(* Bounds                                                                  *)
(***************************************************************************)
MaxThemes == 2
MaxUsers == 2
MaxRequests == 3

(***************************************************************************)
(* http-status-codes                                                       *)
(***************************************************************************)
OK == 200
BAD_REQUEST == 400
UNAUTHORIZED == 401
NOT_FOUND == 404
CONFLICT == 409
INTERNAL_SERVER_ERROR == 500
NOT_IMPLEMENTED == 501

NULL == "null"

(***************************************************************************)
(* Theme service                                                           *)
(***************************************************************************)
UserIds == {"u1", "u2"}
ThemeIds == 1..MaxThemes

\* The label / colors / custom_css / custom_html arguments of createTheme and
\* updateTheme; an omitted optional argument is stored as NULL.
ThemeInputs ==
    { [label |-> "a", colors |-> NULL, customCss |-> NULL, customHtml |-> NULL],
      [label |-> "b", colors |-> "c1", customCss |-> "css1", customHtml |-> "html1"] }

\* DbTypeConverter.toTheme: raw row -> public Theme.
toTheme(row) ==
    [id |-> row.id, userId |-> row.user_id, label |-> row.label,
     colors |-> row.colors, customCss |-> row.custom_css,
     customHtml |-> row.custom_html, global |-> row.global]

\* new HttpError(statusCode, message) thrown by a service method, as an outcome.
Thrown(tbl, statusCode, message) ==
    [table |-> tbl, status |-> statusCode, message |-> message, value |-> {}]

Returned(tbl, rows) ==
    [table |-> tbl, status |-> OK, message |-> "", value |-> {toTheme(x) : x \in rows}]

\* select * from app.themes where id=$1
GetThemeRows(tbl, themeId) == {t \in tbl : t.id = themeId}

getTheme(tbl, themeId) ==
    LET rows == GetThemeRows(tbl, themeId) IN
    IF Cardinality(rows) <= 0
    THEN Thrown(tbl, NOT_FOUND, "The theme couldn't be found.")
    ELSE Returned(tbl, rows)

\* listThemes with includeGlobal ignored.
ListThemesRowsNoFlag(tbl, userId, includeGlobal) ==
    {t \in tbl : t.user_id = userId \/ t.global = TRUE}

\* select ... where user_id=$1 or global=true   /   select ... where user_id=$1
ListThemesRows(tbl, userId, includeGlobal) ==
    IF includeGlobal
    THEN {t \in tbl : t.user_id = userId \/ t.global = TRUE}
    ELSE {t \in tbl : t.user_id = userId}

listThemes(tbl, userId, includeGlobal) ==
    LET rows == ListThemesRows(tbl, userId, includeGlobal) IN
    IF Cardinality(rows) <= 0
    THEN Thrown(tbl, NOT_FOUND, "No themes were found.")
    ELSE Returned(tbl, rows)

\* insert into app.themes(label, colors, custom_css, custom_html, user_id)
\* values (...) returning *  -- id is assigned by the table, global by its default.
createTheme(tbl, newId, userId, in) ==
    LET rows == {[id |-> newId, user_id |-> userId, label |-> in.label,
                  colors |-> in.colors, custom_css |-> in.customCss,
                  custom_html |-> in.customHtml, global |-> FALSE]} IN
    IF Cardinality(rows) <= 0
    THEN Thrown(tbl, INTERNAL_SERVER_ERROR,
                "Failed to add a new theme because of an internal server error.")
    ELSE Returned(tbl \cup rows, rows)

\* The update's WHERE clause without its user_id test.
UpdateThemeRowsAnyOwner(tbl, themeId, userId) == {t \in tbl : t.id = themeId}

\* ... where id=$5 and user_id=$6
UpdateThemeRows(tbl, themeId, userId) ==
    {t \in tbl : t.id = themeId /\ t.user_id = userId}

updateTheme(tbl, themeId, userId, in) ==
    LET hit == UpdateThemeRows(tbl, themeId, userId)
        rows == {[t EXCEPT !.label = in.label, !.colors = in.colors,
                           !.custom_css = in.customCss,
                           !.custom_html = in.customHtml] : t \in hit} IN
    IF Cardinality(rows) <= 0
    THEN Thrown(tbl, NOT_FOUND,
                "Failed to update the theme because the id couldn't be found.")
    ELSE Returned((tbl \ hit) \cup rows, rows)

\* The delete's WHERE clause without its user_id test.
DeleteThemeRowsAnyOwner(tbl, themeId, userId) == {t \in tbl : t.id = themeId}

\* delete from app.themes where id=$1 and user_id=$2 returning *
DeleteThemeRows(tbl, themeId, userId) ==
    {t \in tbl : t.id = themeId /\ t.user_id = userId}

deleteTheme(tbl, themeId, userId) ==
    LET rows == DeleteThemeRows(tbl, themeId, userId) IN
    IF Cardinality(rows) <= 0
    THEN Thrown(tbl, NOT_FOUND,
                "Failed to delete the theme because the id couldn't be found.")
    ELSE Returned(tbl \ rows, rows)

\* update app.themes set global=$1 where id=$2 returning *
setGlobal(tbl, themeId, global) ==
    LET hit == {t \in tbl : t.id = themeId}
        rows == {[t EXCEPT !.global = global] : t \in hit} IN
    IF Cardinality(rows) <= 0
    THEN Thrown(tbl, NOT_FOUND,
                "Failed to add a new theme because the id couldn't be found.")
    ELSE Returned((tbl \ hit) \cup rows, rows)

\* update app.themes set user_id=$1 where id=$2 returning *
setUserId(tbl, themeId, userId) ==
    LET hit == {t \in tbl : t.id = themeId}
        rows == {[t EXCEPT !.user_id = userId] : t \in hit} IN
    IF Cardinality(rows) <= 0
    THEN Thrown(tbl, NOT_FOUND,
                "Failed to add a new theme because the id couldn't be found.")
    ELSE Returned((tbl \ hit) \cup rows, rows)

\* What the last service call was and how it ended.  caller is the user on whose
\* behalf the call is made; getTheme, setGlobal and setUserId take no such argument.
Outcome(op, themeId, userId, caller, flag, out) ==
    [op |-> op, themeId |-> themeId, userId |-> userId, caller |-> caller,
     flag |-> flag, status |-> out.status, message |-> out.message,
     value |-> out.value]

GetTheme(themeId, caller) ==
    LET out == getTheme(themes, themeId) IN
    /\ themes' = out.table
    /\ res' = Outcome("getTheme", themeId, NULL, caller, FALSE, out)
    /\ UNCHANGED <<nextThemeId, userVars, mixpanel>>

ListThemes(userId, includeGlobal) ==
    LET out == listThemes(themes, userId, includeGlobal) IN
    /\ themes' = out.table
    /\ res' = Outcome("listThemes", 0, userId, userId, includeGlobal, out)
    /\ UNCHANGED <<nextThemeId, userVars, mixpanel>>

CreateTheme(userId, in) ==
    /\ nextThemeId <= MaxThemes
    /\ LET out == createTheme(themes, nextThemeId, userId, in) IN
       /\ themes' = out.table
       /\ res' = Outcome("createTheme", nextThemeId, userId, userId, FALSE, out)
    /\ nextThemeId' = nextThemeId + 1
    /\ UNCHANGED <<userVars, mixpanel>>

UpdateTheme(themeId, userId, in) ==
    LET out == updateTheme(themes, themeId, userId, in) IN
    /\ themes' = out.table
    /\ res' = Outcome("updateTheme", themeId, userId, userId, FALSE, out)
    /\ UNCHANGED <<nextThemeId, userVars, mixpanel>>

DeleteTheme(themeId, userId) ==
    LET out == deleteTheme(themes, themeId, userId) IN
    /\ themes' = out.table
    /\ res' = Outcome("deleteTheme", themeId, userId, userId, FALSE, out)
    /\ UNCHANGED <<nextThemeId, userVars, mixpanel>>

SetGlobal(themeId, global) ==
    LET out == setGlobal(themes, themeId, global) IN
    /\ themes' = out.table
    /\ res' = Outcome("setGlobal", themeId, NULL, NULL, global, out)
    /\ UNCHANGED <<nextThemeId, userVars, mixpanel>>

SetUserId(themeId, userId) ==
    LET out == setUserId(themes, themeId, userId) IN
    /\ themes' = out.table
    /\ res' = Outcome("setUserId", themeId, userId, NULL, FALSE, out)
    /\ UNCHANGED <<nextThemeId, userVars, mixpanel>>

(***************************************************************************)
(* User controller                                                         *)
(***************************************************************************)
ReqIds == {"r1", "r2"}
Handles == {"h1", "h2"}
Routes == {"/user/login", "/user/create", "/user/request-reset-password",
           "/user/reset-password", "/user", "/user/update", "/user/delete",
           "/user/data-package", "/user/set-active-profile"}

\* What a failing service call throws: an HttpError with a status code, or any
\* other exception (a driver or connection error), which carries none.
HttpError(statusCode) == [http |-> TRUE, statusCode |-> statusCode]
PlainError == [http |-> FALSE, statusCode |-> 0]
Failures == {HttpError(INTERNAL_SERVER_ERROR), PlainError}

\* A request slot with no request in it.
Idle ==
    [route |-> "none", pc |-> "idle", email |-> FALSE, password |-> FALSE,
     token |-> FALSE, handle |-> NULL, newProfileId |-> 0, authUser |-> 0,
     status |-> 0, log |-> <<>>, lookup |-> "none", user |-> 0, profile |-> 0]

Call(name, ok) == [call |-> name, ok |-> ok]

\* The reply is sent and the handler returns.
Reply(q, statusCode) == [q EXCEPT !.pc = "done", !.status = statusCode]

\* catch (e) { if (e instanceof HttpError) { reply.code(e.statusCode); ... } throw e; }
\* An error thrown out of the handler is answered by the framework with 500.
Catch(q, e) ==
    IF e.http THEN Reply(q, e.statusCode) ELSE Reply(q, INTERNAL_SERVER_ERROR)

Logged(q, name, ok) == [q EXCEPT !.log = Append(@, Call(name, ok))]

\* if (this.mixpanel) this.mixpanel.track(event, ...)
Track(q, event) == IF mixpanel THEN Logged(q, event, TRUE) ELSE q

\* The request bodies a route is tried with (a field is present or missing).
Bodies(route) ==
    CASE route = "/user/login" ->
           {[Idle EXCEPT !.email = e, !.password = p] : e \in BOOLEAN, p \in BOOLEAN}
      [] route = "/user/create" ->
           {[Idle EXCEPT !.email = e, !.password = p, !.handle = h] :
              e \in BOOLEAN, p \in BOOLEAN, h \in Handles}
      [] route = "/user/request-reset-password" ->
           {[Idle EXCEPT !.email = e] : e \in BOOLEAN}
      [] route = "/user/reset-password" ->
           {[Idle EXCEPT !.token = t, !.password = p] : t \in BOOLEAN, p \in BOOLEAN}
      [] route = "/user/set-active-profile" ->
           {[Idle EXCEPT !.authUser = u, !.newProfileId = n] :
              u \in users, n \in 0..MaxUsers}
      [] OTHER -> {[Idle EXCEPT !.authUser = u] : u \in users}

\* A request arrives and is routed to its handler (registerRoutes); the
\* authenticated routes are reached with authUser set to an existing user.
Arrive(r, route) ==
    /\ req[r].pc \in {"idle", "done"}
    /\ nreq < MaxRequests
    /\ \E b \in Bodies(route) :
         req' = [req EXCEPT ![r] = [b EXCEPT !.route = route, !.pc = "start"]]
    /\ nreq' = nreq + 1
    /\ UNCHANGED <<users, profiles, active, nextUserId, nextProfileId, themeVars, mixpanel>>

Step(r, q) ==
    /\ req' = [req EXCEPT ![r] = q]
    /\ UNCHANGED <<users, profiles, active, nextUserId, nextProfileId, nreq, themeVars, mixpanel>>

At(r, route, pc) == req[r].route = route /\ req[r].pc = pc

\* userService.loginUser: the credentials are not part of the state, so the call
\* succeeds or throws.
LoginUser(r) ==
    /\ At(r, "/user/login", "start")
    /\ LET q == req[r] IN
       IF ~q.email THEN Step(r, Reply(q, BAD_REQUEST))
       ELSE IF ~q.password THEN Step(r, Reply(q, BAD_REQUEST))
       ELSE \/ Step(r, Reply(Track(Logged(q, "loginUser", TRUE), "user logged in"), OK))
            \/ \E e \in Failures :
                 Step(r, Catch(Logged(q, "loginUser", FALSE), e))

\* userService.createUser: the user row is inserted, with no active profile yet.
createUser(newId) ==
    [rows |-> users \cup {newId},
     active |-> [u \in users \cup {newId} |-> IF u = newId THEN 0 ELSE active[u]]]

\* profileService.createProfile: the profile row is inserted; handles are unique.
HandleInUse(handle) == \E p \in profiles : p.handle = handle

createProfile(newId, userId, handle) ==
    profiles \cup {[id |-> newId, userId |-> userId, handle |-> handle]}

\* userService.setActiveProfile: the user's active-profile reference is set.
setActiveProfile(userId, profileId) == [active EXCEPT ![userId] = profileId]

\* profileService.getProfileByHandle(handle, false): the profile with that handle,
\* an HttpError NOT_FOUND when there is none, or a failure of the query.
HandleLookups(handle) ==
    (IF HandleInUse(handle)
     THEN {[kind |-> "found", error |-> PlainError]}
     ELSE {[kind |-> "notfound", error |-> HttpError(NOT_FOUND)]})
    \cup {[kind |-> "failed", error |-> e] : e \in Failures}

\* The handle check without its early CONFLICT return.
AfterHandleCheckNoConflict(q, look) ==
    IF look.kind = "found"
    THEN [q EXCEPT !.pc = "createUser"]
    ELSE IF look.error.http /\ look.error.statusCode # NOT_FOUND
    THEN Reply(q, look.error.statusCode)
    ELSE [q EXCEPT !.pc = "createUser"]

\* The inner try/catch around the handle check of CreateUser.
AfterHandleCheck(q, look) ==
    IF look.kind = "found"
    THEN Reply(q, CONFLICT)
    ELSE IF look.error.http
    THEN IF look.error.statusCode # NOT_FOUND
         THEN Reply(q, look.error.statusCode)
         ELSE [q EXCEPT !.pc = "createUser"]
    ELSE [q EXCEPT !.pc = "createUser"]

LookupName(look) ==
    IF look.kind = "failed"
    THEN (IF look.error.http THEN "http" ELSE "plain")
    ELSE look.kind

CreateUserCheck(r) ==
    /\ At(r, "/user/create", "start")
    /\ LET q == req[r] IN
       IF ~q.email THEN Step(r, Reply(q, BAD_REQUEST))
       ELSE IF ~q.password THEN Step(r, Reply(q, BAD_REQUEST))
       ELSE \E look \in HandleLookups(q.handle) :
              Step(r, AfterHandleCheck(
                        [Logged(q, "getProfileByHandle", look.kind = "found")
                           EXCEPT !.lookup = LookupName(look)], look))

\* let user = await this.userService.createUser(body.email, body.password, body.name)
CreateUserInsert(r) ==
    /\ At(r, "/user/create", "createUser")
    /\ LET q == req[r] IN
       \/ /\ nextUserId <= MaxUsers
          /\ users' = createUser(nextUserId).rows
          /\ active' = createUser(nextUserId).active
          /\ nextUserId' = nextUserId + 1
          /\ req' = [req EXCEPT ![r] = [Logged(q, "createUser", TRUE)
                                          EXCEPT !.pc = "createProfile",
                                                 !.user = nextUserId]]
          /\ UNCHANGED <<profiles, nextProfileId, nreq, themeVars, mixpanel>>
       \/ \E e \in Failures :
            Step(r, Catch(Logged(q, "createUser", FALSE), e))

\* let profile = await this.profileService.createProfile(user.id, body.handle);
\* the insert fails when the handle is in use.
CreateUserProfile(r) ==
    /\ At(r, "/user/create", "createProfile")
    /\ LET q == req[r] IN
       \/ /\ ~ HandleInUse(q.handle)
          /\ profiles' = createProfile(nextProfileId, q.user, q.handle)
          /\ nextProfileId' = nextProfileId + 1
          /\ req' = [req EXCEPT ![r] = [Logged(q, "createProfile", TRUE)
                                          EXCEPT !.pc = "setActiveProfile",
                                                 !.profile = nextProfileId]]
          /\ UNCHANGED <<users, active, nextUserId, nreq, themeVars, mixpanel>>
       \/ \E e \in Failures :
            Step(r, Catch(Logged(q, "createProfile", FALSE), e))

\* await this.userService.setActiveProfile(user.id, profile.id), then the token,
\* the analytics calls and the reply.
CreateUserActivate(r) ==
    /\ At(r, "/user/create", "setActiveProfile")
    /\ LET q == req[r] IN
       \/ /\ active' = setActiveProfile(q.user, q.profile)
          /\ req' = [req EXCEPT ![r] =
                Reply(Track(Track(Logged(Logged(q, "setActiveProfile", TRUE),
                                         "jwt.sign", TRUE),
                                  "user created"), "people.set"), OK)]
          /\ UNCHANGED <<users, profiles, nextUserId, nextProfileId, nreq, themeVars, mixpanel>>
       \/ \E e \in Failures :
            Step(r, Catch(Logged(q, "setActiveProfile", FALSE), e))

UserRequestResetPassword(r) ==
    /\ At(r, "/user/request-reset-password", "start")
    /\ LET q == req[r] IN
       IF ~q.email THEN Step(r, Reply(q, NOT_FOUND))
       ELSE \/ Step(r, Reply(Track(Logged(q, "sendPasswordResetEmail", TRUE),
                                   "user requested password reset"), OK))
            \/ \E e \in Failures :
                 Step(r, Catch(Logged(q, "sendPasswordResetEmail", FALSE), e))

ResetUserPassword(r) ==
    /\ At(r, "/user/reset-password", "start")
    /\ LET q == req[r] IN
       IF ~q.token THEN Step(r, Reply(q, BAD_REQUEST))
       ELSE IF ~q.password THEN Step(r, Reply(q, BAD_REQUEST))
       ELSE \/ Step(r, Reply(Logged(q, "setPasswordWithToken", TRUE), OK))
            \/ \E e \in Failures :
                 Step(r, Catch(Logged(q, "setPasswordWithToken", FALSE), e))

GetUser(r) ==
    /\ At(r, "/user", "start")
    /\ Step(r, Reply(req[r], OK))

UpdateUser(r) ==
    /\ At(r, "/user/update", "start")
    /\ Step(r, Reply(req[r], NOT_IMPLEMENTED))

DeleteUser(r) ==
    /\ At(r, "/user/delete", "start")
    /\ Step(r, Reply(req[r], NOT_IMPLEMENTED))

GetUserDataPackage(r) ==
    /\ At(r, "/user/data-package", "start")
    /\ Step(r, Reply(req[r], NOT_IMPLEMENTED))

\* profileService.getProfile(newProfileId): the profile, an HttpError NOT_FOUND
\* when there is none, or a failure of the query.
ProfileLookups(profileId) ==
    (IF \E p \in profiles : p.id = profileId
     THEN {[kind |-> "found", error |-> PlainError]}
     ELSE {[kind |-> "notfound", error |-> HttpError(NOT_FOUND)]})
    \cup {[kind |-> "failed", error |-> e] : e \in Failures}

\* After getProfile returned newProfile: the ownership check, then the analytics
\* call, then the call of setActiveProfile.
AfterOwnershipCheck(q, newProfile) ==
    IF q.authUser # newProfile.userId
    THEN Reply(q, UNAUTHORIZED)
    ELSE [Track(q, "user set active profile") EXCEPT !.pc = "setActiveProfile"]

SetActiveProfileCheck(r) ==
    /\ At(r, "/user/set-active-profile", "start")
    /\ LET q == req[r] IN
       IF q.newProfileId = 0 THEN Step(r, Reply(q, BAD_REQUEST))
       ELSE \E look \in ProfileLookups(q.newProfileId) :
              LET q1 == [Logged(q, "getProfile", look.kind = "found")
                           EXCEPT !.lookup = LookupName(look)] IN
              IF look.kind = "found"
              THEN \E p \in profiles :
                     /\ p.id = q.newProfileId
                     /\ Step(r, AfterOwnershipCheck(q1, p))
              ELSE Step(r, Catch(q1, look.error))

\* return this.userService.setActiveProfile(user.id, newProfileId): the promise is
\* returned without await, so a rejection is answered by the framework, with the
\* error's statusCode when it carries one.
SetActiveProfileActivate(r) ==
    /\ At(r, "/user/set-active-profile", "setActiveProfile")
    /\ LET q == req[r] IN
       \/ /\ active' = setActiveProfile(q.authUser, q.newProfileId)
          /\ req' = [req EXCEPT ![r] = Reply(Logged(q, "setActiveProfile", TRUE), OK)]
          /\ UNCHANGED <<users, profiles, nextUserId, nextProfileId, nreq, themeVars, mixpanel>>
       \/ \E e \in Failures :
            Step(r, Catch(Logged(q, "setActiveProfile", FALSE), e))

ThemeInit ==
    /\ themes = {}
    /\ nextThemeId = 1
    /\ res = [op |-> "none", themeId |-> 0, userId |-> NULL, caller |-> NULL,
              flag |-> FALSE, status |-> OK, message |-> "", value |-> {}]

UserInit ==
    /\ users = {}
    /\ profiles = {}
    /\ active = <<>>
    /\ nextUserId = 1
    /\ nextProfileId = 1
    /\ req = [r \in ReqIds |-> Idle]
    /\ nreq = 0

\* config.analytics.mixpanelToken is set or not.
Init == ThemeInit /\ UserInit /\ mixpanel \in BOOLEAN

ThemeNext ==
    \/ \E t \in ThemeIds, c \in UserIds : GetTheme(t, c)
    \/ \E u \in UserIds, g \in BOOLEAN : ListThemes(u, g)
    \/ \E u \in UserIds, in \in ThemeInputs : CreateTheme(u, in)
    \/ \E t \in ThemeIds, u \in UserIds, in \in ThemeInputs : UpdateTheme(t, u, in)
    \/ \E t \in ThemeIds, u \in UserIds : DeleteTheme(t, u)
    \/ \E t \in ThemeIds, g \in BOOLEAN : SetGlobal(t, g)
    \/ \E t \in ThemeIds, u \in UserIds : SetUserId(t, u)

\* The theme service alone; it has no analytics client.
ThemeServiceInit == ThemeInit /\ UserInit /\ mixpanel = FALSE

ThemeSpec == ThemeServiceInit /\ [][ThemeNext]_vars

UserNext ==
    \/ \E r \in ReqIds, route \in Routes : Arrive(r, route)
    \/ \E r \in ReqIds : LoginUser(r)
    \/ \E r \in ReqIds : CreateUserCheck(r)
    \/ \E r \in ReqIds : CreateUserInsert(r)
    \/ \E r \in ReqIds : CreateUserProfile(r)
    \/ \E r \in ReqIds : CreateUserActivate(r)
    \/ \E r \in ReqIds : UserRequestResetPassword(r)
    \/ \E r \in ReqIds : ResetUserPassword(r)
    \/ \E r \in ReqIds : GetUser(r)
    \/ \E r \in ReqIds : UpdateUser(r)
    \/ \E r \in ReqIds : DeleteUser(r)
    \/ \E r \in ReqIds : GetUserDataPackage(r)
    \/ \E r \in ReqIds : SetActiveProfileCheck(r)
    \/ \E r \in ReqIds : SetActiveProfileActivate(r)

UserSpec == Init /\ [][UserNext]_vars

(***************************************************************************)
(* Theme service properties                                                *)
(***************************************************************************)
\* The ids that are in no row of the table (MaxThemes + 1 is never assigned).
AbsentIds == (1..(MaxThemes + 1)) \ {t.id : t \in themes}

\* C1: in every state of the themes table, for every theme T and every user U
\* that is not T's owner (T global or not), updateTheme(T, U, ...) and
\* deleteTheme(T, U) end exactly as they do for an id that is in no row: a
\* NOT_FOUND error with the same message, no theme returned, the table unchanged;
\* and a call that was just made on such a theme ended that way.
C1_NonOwnerLooksAbsent ==
    /\ \A t \in themes, u \in UserIds :
         t.user_id # u =>
           /\ deleteTheme(themes, t.id, u).status = NOT_FOUND
           /\ deleteTheme(themes, t.id, u).table = themes
           /\ \A a \in AbsentIds :
                deleteTheme(themes, t.id, u) = deleteTheme(themes, a, u)
           /\ \A in \in ThemeInputs :
                /\ updateTheme(themes, t.id, u, in).status = NOT_FOUND
                /\ updateTheme(themes, t.id, u, in).table = themes
                /\ \A a \in AbsentIds :
                     updateTheme(themes, t.id, u, in) = updateTheme(themes, a, u, in)
    /\ (/\ res.op \in {"updateTheme", "deleteTheme"}
        /\ \E t \in themes : t.id = res.themeId /\ t.user_id # res.userId)
       => res.status = NOT_FOUND /\ res.value = {}

\* A non-owner has just tried to delete an existing global theme.
C1_Witness ==
    /\ res.op = "deleteTheme"
    /\ res.status = NOT_FOUND
    /\ \E t \in themes : t.id = res.themeId /\ t.user_id # res.userId /\ t.global

\* The rows of the table a user may see.
Visible(userId, includeGlobal) ==
    {t \in themes : t.user_id = userId \/ (includeGlobal /\ t.global)}

\* C4: in every state of the themes table and for every user U, listThemes(U, true)
\* returns exactly the themes owned by U or global and listThemes(U, false) exactly
\* the themes owned by U, and when that set is empty the call fails with NOT_FOUND
\* instead of returning an empty list; the table is unchanged.
C4_ListThemes ==
    /\ \A u \in UserIds, g \in BOOLEAN :
         LET out == listThemes(themes, u, g) IN
         /\ out.table = themes
         /\ IF Visible(u, g) = {}
            THEN out.status = NOT_FOUND /\ out.value = {}
            ELSE out.status = OK /\ out.value = {toTheme(t) : t \in Visible(u, g)}
    /\ res.op = "listThemes" =>
         IF Visible(res.userId, res.flag) = {}
         THEN res.status = NOT_FOUND /\ res.value = {}
         ELSE /\ res.status = OK
              /\ \A t \in themes :
                   toTheme(t) \in res.value <=>
                     (t.user_id = res.userId \/ (res.flag /\ t.global))
              /\ \A th \in res.value : \E t \in themes : th = toTheme(t)

\* listThemes(U, false) has just left out a global theme of another user and
\* returned a theme of U.
C4_Witness ==
    /\ res.op = "listThemes"
    /\ res.flag = FALSE
    /\ res.status = OK
    /\ \E t \in themes : t.global /\ t.user_id # res.userId /\ toTheme(t) \notin res.value

\* C5: no read of the theme service (getTheme, listThemes) made on behalf of a
\* user returns a theme that is not global and is owned by another user.
C5_ReadsOnlyVisibleThemes ==
    (res.op \in {"getTheme", "listThemes"} /\ res.status = OK) =>
       \A th \in res.value : th.global \/ th.userId = res.caller

Content(t) == <<t.label, t.colors, t.custom_css, t.custom_html>>

C10_Step ==
    /\ \A t \in themes :
         LET after == {x \in themes' : x.id = t.id} IN
         /\ Cardinality(after) <= 1
         /\ after = {} =>
              /\ res'.op = "deleteTheme" /\ res'.status = OK
              /\ res'.themeId = t.id /\ res'.userId = t.user_id
         /\ \A x \in after :
              /\ Content(x) # Content(t) =>
                   /\ res'.op = "updateTheme" /\ res'.status = OK
                   /\ res'.themeId = t.id /\ res'.userId = t.user_id
              /\ x.global # t.global =>
                   res'.op = "setGlobal" /\ res'.status = OK /\ res'.themeId = t.id
              /\ x.user_id # t.user_id =>
                   res'.op = "setUserId" /\ res'.status = OK /\ res'.themeId = t.id
    /\ \A x \in themes' :
         (~ \E t \in themes : t.id = x.id) =>
            res'.op = "createTheme" /\ res'.status = OK /\ res'.themeId = x.id
    /\ res'.status # OK => themes' = themes
    /\ (res'.op = "setUserId" /\ res'.status = OK) =>
         \A t \in themes :
           (t.id = res'.themeId /\ t.user_id # res'.userId) =>
              /\ deleteTheme(themes', t.id, t.user_id).status = NOT_FOUND
              /\ deleteTheme(themes', t.id, res'.userId).status = OK
              /\ \A in \in ThemeInputs :
                   /\ updateTheme(themes', t.id, t.user_id, in).status = NOT_FOUND
                   /\ updateTheme(themes', t.id, res'.userId, in).status = OK

\* C10: in every step of the theme service, a theme's label, colors, custom CSS
\* and custom HTML change only by a successful updateTheme called with its owner,
\* a theme disappears only by a successful deleteTheme called with its owner, its
\* global flag changes only by setGlobal and its user_id only by setUserId on that
\* theme, a new row appears only by createTheme, no other theme changes, a failing
\* call leaves the table unchanged, and after setUserId has moved a theme to
\* another user the previous owner's updateTheme and deleteTheme fail with
\* NOT_FOUND while the new owner's succeed.
C10_Frame == [][C10_Step]_vars

\* A theme has just been handed to another user than the one it was created for,
\* with a second theme in the table.
C10_Witness ==
    /\ res.op = "setUserId"
    /\ res.status = OK
    /\ Cardinality(themes) = 2
    /\ \E t \in themes : t.id = res.themeId /\ t.user_id = "u2" /\ t.label = "b"
    /\ \E t \in themes : t.id # res.themeId /\ t.user_id = "u1" /\ t.global

(***************************************************************************)
(* User controller properties                                              *)
(***************************************************************************)
\* The handler of request q has called the service method or analytics event.
Invoked(q, name) == \E i \in 1..Len(q.log) : q.log[i].call = name

CreatedNothing(q) ==
    /\ ~ Invoked(q, "createUser")
    /\ ~ Invoked(q, "createProfile")
    /\ ~ Invoked(q, "setActiveProfile")

C2_Step ==
    \A r \in ReqIds :
      (/\ req'[r].route = "/user/create"
       /\ req'[r].lookup = "found"
       /\ req[r].pc = "start") =>
         users' = users /\ profiles' = profiles /\ active' = active

C2_State ==
    \A r \in ReqIds :
      (req[r].route = "/user/create" /\ req[r].lookup = "found") =>
         /\ req[r].pc = "done"
         /\ req[r].status = CONFLICT
         /\ CreatedNothing(req[r])

\* C2: when the handle check of /user/create finds a profile with the requested
\* handle, the request ends with CONFLICT (409), createUser, createProfile and
\* setActiveProfile are not called, and the step leaves the user rows, the profile
\* rows and every user's active profile as they were.
C2_TakenHandleConflicts == [][C2_Step]_vars /\ []C2_State

\* A second registration asked for a handle that a first one had taken, and was
\* answered 409.
C2_Witness ==
    \E r \in ReqIds :
      /\ req[r].route = "/user/create"
      /\ req[r].lookup = "found"
      /\ req[r].status = CONFLICT
      /\ \E p \in profiles : p.handle = req[r].handle

\* C3: every /user/set-active-profile request with a non-empty newProfileId that
\* is no profile of the caller, a profile of another user or no profile at all,
\* is answered UNAUTHORIZED (401) and does not call setActiveProfile.  Requests
\* whose getProfile query itself broke down are left aside.
C3_NotOwnedIsUnauthorized ==
    \A r \in ReqIds :
      (/\ req[r].route = "/user/set-active-profile"
       /\ req[r].pc # "start"
       /\ req[r].newProfileId # 0
       /\ req[r].lookup \in {"found", "notfound"}
       /\ ~ \E p \in profiles :
              p.id = req[r].newProfileId /\ p.userId = req[r].authUser) =>
         /\ req[r].pc = "done"
         /\ req[r].status = UNAUTHORIZED
         /\ ~ Invoked(req[r], "setActiveProfile")

\* A required body field of the request's route is missing or empty.
MissingRequired(q) ==
    CASE q.route = "/user/login" -> ~q.email \/ ~q.password
      [] q.route = "/user/create" -> ~q.email \/ ~q.password
      [] q.route = "/user/request-reset-password" -> ~q.email
      [] q.route = "/user/reset-password" -> ~q.token \/ ~q.password
      [] q.route = "/user/set-active-profile" -> q.newProfileId = 0
      [] OTHER -> FALSE

\* C6: a request to /user/login, /user/create, /user/request-reset-password,
\* /user/reset-password or /user/set-active-profile with a required field missing
\* is answered 400 (BAD_REQUEST) without any service call.
C6_MissingFieldIsBadRequest ==
    \A r \in ReqIds :
      (req[r].pc \notin {"idle", "start"} /\ MissingRequired(req[r])) =>
         /\ req[r].pc = "done"
         /\ req[r].status = BAD_REQUEST
         /\ req[r].log = <<>>

\* C7: in /user/create, a handle lookup that fails with anything but not-found (an
\* HttpError of another status, or an error with no status code) ends the request
\* without a call of createUser, createProfile or setActiveProfile; only a
\* not-found lookup lets the request go on to createUser.
C7_LookupErrorEndsRequest ==
    \A r \in ReqIds :
      req[r].route = "/user/create" =>
         /\ req[r].lookup \in {"http", "plain"} =>
              req[r].pc = "done" /\ CreatedNothing(req[r])
         /\ (req[r].pc = "createUser" \/ Invoked(req[r], "createUser")) =>
              req[r].lookup = "notfound"

\* C8: in /user/set-active-profile the 'user set active profile' event is emitted
\* only after the setActiveProfile call has succeeded.
C8_EventAfterActivation ==
    \A r \in ReqIds :
      req[r].route = "/user/set-active-profile" =>
        \A i \in 1..Len(req[r].log) :
          req[r].log[i].call = "user set active profile" =>
            \E j \in 1..(i - 1) :
              req[r].log[j].call = "setActiveProfile" /\ req[r].log[j].ok

\* C9: whenever no /user/create request is under way, every user row has an active
\* profile, and that profile is a row owned by that user.
C9_RegistrationAllOrNothing ==
    (\A r \in ReqIds : req[r].route = "/user/create" => req[r].pc = "done") =>
       \A u \in users :
         /\ active[u] # 0
         /\ \E p \in profiles : p.id = active[u] /\ p.userId = u

====
